---- MODULE Spec2Model ----
(***************************************************************************)
(* Model of the score card scripts:                                        *)
(*   src/scripts/calculate-scores.js  (class ScoreCalculator)              *)
(*   src/scripts/validate-scores.js   (class ScoreValidator)               *)
(*                                                                         *)
(* JSON / JavaScript values are tagged records, so that a field can hold   *)
(* a number, null, a string, ... and be absent (undefined).  Numbers are   *)
(* exact rationals num/den in lowest terms: the sums of the code are sums  *)
(* of integers and its divisions are by small counts; the binary rounding  *)
(* of IEEE doubles is not modelled.                                        *)
(***************************************************************************)
EXTENDS Integers, Sequences, FiniteSets, TLC

VARIABLES
    input,          \* the argument of the operation being applied
    output,         \* what the operation returned (or that it threw)
    errors,         \* ScoreValidator: this.errors
    warnings,       \* ScoreValidator: this.warnings
    calls,          \* number of validations the ScoreValidator instance has run
    entityFiles,    \* calculateAllScores: the files found, as their contents
    idx,            \* calculateAllScores: number of files the loop has handled
    allScores,      \* calculateAllScores: const allScores
    batchErrors,    \* calculateAllScores: const errors
    outputFile,     \* the content written to this.outputFile, or NotWritten
    pc              \* position of calculateAllScores

vars == <<input, output, errors, warnings, calls,
          entityFiles, idx, allScores, batchErrors, outputFile, pc>>

(***************************************************************************)
(* Bounds of the model.                                                    *)
(***************************************************************************)
MaxEntries == 3        \* entries of the area given to processAreaScore
MaxAreas == 2          \* areas of a record
MaxPercents == 3       \* length of the list given to calculateOverallScore
MaxRecordEntries == 3  \* entries of a whole record, all areas together
MaxValidations == 2    \* validations run by one ScoreValidator instance
MaxFiles == 2          \* files of one batch

(***************************************************************************)
(* JavaScript values.                                                      *)
(***************************************************************************)
Undefined == [type |-> "undefined"]
Null == [type |-> "null"]
NaN == [type |-> "NaN"]
Bool(b) == [type |-> "boolean", val |-> b]
Str(s) == [type |-> "string", val |-> s]
Arr(items) == [type |-> "array", items |-> items]
Obj(fields) == [type |-> "object", fields |-> fields]

RECURSIVE GCD(_, _)
GCD(a, b) == IF b = 0 THEN a ELSE GCD(b, a % b)

Abs(n) == IF n < 0 THEN -n ELSE n

\* the number n/d (d > 0), in lowest terms
Rat(n, d) ==
    LET g == GCD(Abs(n), d)
    IN  [type |-> "number", num |-> n \div g, den |-> d \div g]

Num(n) == Rat(n, 1)

IsNumber(x) == x.type = "number"

\* typeof x
typeof(x) ==
    CASE x.type \in {"number", "NaN"} -> "number"
      [] x.type \in {"null", "array", "object"} -> "object"
      [] OTHER -> x.type

\* x + y, x / n, x - y on numbers; NaN when an operand is undefined or NaN
Plus(x, y) ==
    IF IsNumber(x) /\ IsNumber(y)
    THEN Rat(x.num * y.den + y.num * x.den, x.den * y.den)
    ELSE NaN

Minus(x, y) ==
    IF IsNumber(x) /\ IsNumber(y)
    THEN Rat(x.num * y.den - y.num * x.den, x.den * y.den)
    ELSE NaN

DivideBy(x, n) == IF IsNumber(x) THEN Rat(x.num, x.den * n) ELSE NaN

\* x <= y, x < y; every comparison with NaN or undefined is false
LessEq(x, y) == IsNumber(x) /\ IsNumber(y) /\ x.num * y.den <= y.num * x.den
LessThan(x, y) == IsNumber(x) /\ IsNumber(y) /\ x.num * y.den < y.num * x.den

\* Math.abs(x)
MathAbs(x) == IF IsNumber(x) THEN Rat(Abs(x.num), x.den) ELSE NaN

\* Math.floor(x) in the place of Math.round(x)
MathRound_Floor(x) ==
    IF IsNumber(x) THEN Num(x.num \div x.den) ELSE NaN

\* Math.round(x): the nearest integer, halves rounded up
MathRound(x) ==
    IF IsNumber(x) THEN Num((2 * x.num + x.den) \div (2 * x.den)) ELSE NaN

\* the !x of JavaScript is ~Truthy(x)
Truthy(x) ==
    CASE x.type \in {"undefined", "null", "NaN"} -> FALSE
      [] x.type = "boolean" -> x.val
      [] x.type = "number" -> x.num # 0
      [] x.type = "string" -> x.val # ""
      [] OTHER -> TRUE

\* reading a property of undefined or null throws a TypeError
CanRead(x) == x.type \notin {"undefined", "null"}

\* x.f for a readable x: undefined unless x is an object that has f
Get(x, f) ==
    IF x.type = "object" /\ f \in DOMAIN x.fields THEN x.fields[f] ELSE Undefined

\* f in x (throws a TypeError unless x is an object or an array)
CanTestIn(x) == x.type \in {"object", "array"}
HasField(x, f) == x.type = "object" /\ f \in DOMAIN x.fields

IsArray(x) == x.type = "array"

\* { ...a, ...b } on field maps
Merge(a, b) ==
    [f \in DOMAIN a \cup DOMAIN b |-> IF f \in DOMAIN b THEN b[f] ELSE a[f]]

\* results of an operation that can throw
Threw(what) == [threw |-> TRUE, error |-> what]
Returned(v) == [threw |-> FALSE, value |-> v]

NoOutput == [op |-> "none"]
NotWritten == [written |-> FALSE]

\* all sequences over S of length lo..hi
SeqsOf(S, lo, hi) == UNION {[1..n -> S] : n \in lo..hi}

(***************************************************************************)
(* calculate-scores.js: the two range tables, in their insertion order.    *)
(***************************************************************************)
SCORE_SUCCESS_MAPPING ==
    << [name |-> "success",        min |-> 80, max |-> 100],
       [name |-> "almost-success", min |-> 70, max |-> 79],
       [name |-> "partial",        min |-> 50, max |-> 69],
       [name |-> "almost-failure", min |-> 30, max |-> 49],
       [name |-> "failure",        min |-> 0,  max |-> 29] >>

\* the color table with the success table's boundary at 80
COLOR_MAPPING_SplitAt80 ==
    << [name |-> "Green",  min |-> 80, max |-> 100],
       [name |-> "Yellow", min |-> 30, max |-> 79],
       [name |-> "Red",    min |-> 0,  max |-> 29] >>

COLOR_MAPPING ==
    << [name |-> "Green",  min |-> 70, max |-> 100],
       [name |-> "Yellow", min |-> 30, max |-> 69],
       [name |-> "Red",    min |-> 0,  max |-> 29] >>

\* percent >= range.min && percent <= range.max
InRange(percent, range) ==
    LessEq(Num(range.min), percent) /\ LessEq(percent, Num(range.max))

\* for (const [name, range] of Object.entries(table)) if (in range) return name;
\* return fallback
RECURSIVE FirstRange(_, _, _)
FirstRange(table, percent, fallback) ==
    IF table = <<>> THEN fallback
    ELSE IF InRange(percent, Head(table)) THEN Head(table).name
    ELSE FirstRange(Tail(table), percent, fallback)

getScoreLabel(percent) == FirstRange(COLOR_MAPPING, percent, "Red")

getScoreSuccess(percent) == FirstRange(SCORE_SUCCESS_MAPPING, percent, "failure")

(***************************************************************************)
(* ScoreCalculator.processAreaScore                                        *)
(***************************************************************************)
\* the filter callback with the isOptional test left out
IsScoredEntry_KeepsOptional(entry) ==
    /\ Get(entry, "scoreSuccess") # Str("unknown")
    /\ Get(entry, "scorePercent") # Null
    /\ Get(entry, "scorePercent") # Undefined

\* the filter callback of processAreaScore
IsScoredEntry(entry) ==
    /\ Get(entry, "scoreSuccess") # Str("unknown")
    /\ Get(entry, "scorePercent") # Null
    /\ Get(entry, "scorePercent") # Undefined
    /\ ~Truthy(Get(entry, "isOptional"))

\* scoredEntries.reduce((sum, entry) => sum + entry.scorePercent, 0)
\* the reduce with a callback that returns entry.scorePercent alone
SumScorePercent_ForgetsSum(entries) ==
    IF entries = <<>> THEN Num(0)
    ELSE Get(entries[Len(entries)], "scorePercent")

RECURSIVE SumScorePercent(_)
SumScorePercent(entries) ==
    IF entries = <<>> THEN Num(0)
    ELSE Plus(SumScorePercent(SubSeq(entries, 1, Len(entries) - 1)),
              Get(entries[Len(entries)], "scorePercent"))

processAreaScore(area) ==
    IF ~CanRead(area) THEN Threw("TypeError")
    ELSE IF ~IsArray(Get(area, "scoreEntries")) THEN Threw("TypeError")
    ELSE
      LET scoreEntries == Get(area, "scoreEntries").items
      IN  IF \E i \in 1..Len(scoreEntries) : ~CanRead(scoreEntries[i])
          THEN Threw("TypeError")
          ELSE
            LET scoredEntries == SelectSeq(scoreEntries, IsScoredEntry)
                totalScore == SumScorePercent(scoredEntries)
                areaScore == IF Len(scoredEntries) > 0
                             THEN DivideBy(totalScore, Len(scoredEntries))
                             ELSE Num(0)
            IN  Returned([id |-> Get(area, "id"),
                          title |-> Get(area, "title"),
                          scorePercent |-> areaScore,
                          scoreEntries |-> Get(area, "scoreEntries")])

(***************************************************************************)
(* The entries and areas the operations are applied to.                    *)
(***************************************************************************)
Entry(success, percent, optional) ==
    Obj([id |-> Num(1), title |-> Str("t"), details |-> Str("d"),
         scoreSuccess |-> Str(success), scorePercent |-> percent,
         isOptional |-> Bool(optional)])

\* an entry without a scorePercent field
EntryNoPercent(success, optional) ==
    Obj([id |-> Num(1), title |-> Str("t"), details |-> Str("d"),
         scoreSuccess |-> Str(success), isOptional |-> Bool(optional)])

Area(id, entries) ==
    Obj([id |-> Num(id), title |-> Str("area"), scoreEntries |-> Arr(entries)])

\* the entries of the areas given to processAreaScore
AreaEntryChoices ==
    { Entry("failure", Num(0), FALSE),
      Entry("failure", Num(1), FALSE),
      Entry("almost-failure", Num(40), FALSE),
      Entry("partial", Num(60), FALSE),
      Entry("almost-success", Num(79), FALSE),
      Entry("success", Num(80), FALSE),
      Entry("unknown", Num(50), FALSE),        \* unknown with a stray percent
      Entry("success", Num(100), TRUE),        \* optional, concrete and valid
      Entry("partial", Null, FALSE),           \* percent null
      EntryNoPercent("partial", FALSE) }       \* percent absent

AreaInputs == {Area(1, es) : es \in SeqsOf(AreaEntryChoices, 0, MaxEntries)}

(***************************************************************************)
(* SpecArea: processAreaScore applied to one area.                         *)
(***************************************************************************)
Idle ==
    /\ errors = <<>>
    /\ warnings = <<>>
    /\ calls = 0
    /\ entityFiles = <<>>
    /\ idx = 0
    /\ allScores = <<>>
    /\ batchErrors = <<>>
    /\ outputFile = NotWritten
    /\ pc = "idle"

InitArea ==
    /\ input \in AreaInputs
    /\ output = NoOutput
    /\ Idle

ProcessAreaScore ==
    /\ output = NoOutput
    /\ output' = [op |-> "processAreaScore", result |-> processAreaScore(input)]
    /\ UNCHANGED <<input, errors, warnings, calls,
                   entityFiles, idx, allScores, batchErrors, outputFile, pc>>

NextArea == ProcessAreaScore

SpecArea == InitArea /\ [][NextArea]_vars

(***************************************************************************)
(* Claims about processAreaScore (SpecArea).                               *)
(***************************************************************************)
\* the claim's own reading of "qualifies": scoreSuccess is not unknown, a
\* scorePercent is there and is not null, isOptional is not true
Qualifies(entry) ==
    /\ entry.fields.scoreSuccess.val # "unknown"
    /\ "scorePercent" \in DOMAIN entry.fields
    /\ entry.fields.scorePercent.type # "null"
    /\ ~("isOptional" \in DOMAIN entry.fields /\ entry.fields.isOptional = Bool(TRUE))

RECURSIVE SumOfPercents(_, _)
SumOfPercents(entries, S) ==
    IF S = {} THEN Num(0)
    ELSE LET i == CHOOSE j \in S : TRUE
         IN  Plus(entries[i].fields.scorePercent, SumOfPercents(entries, S \ {i}))

MeanOfQualifying(entries) ==
    LET Q == {i \in 1..Len(entries) : Qualifies(entries[i])}
    IN  IF Q = {} THEN Num(0)
        ELSE DivideBy(SumOfPercents(entries, Q), Cardinality(Q))

RemoveAt(s, i) == SubSeq(s, 1, i - 1) \o SubSeq(s, i + 1, Len(s))

InputEntries == input.fields.scoreEntries.items

\* C1: the area percent returned by processAreaScore is the exact mean of the
\* scorePercent of the entries that are not unknown, have a percent and are
\* not optional, 0 when there is none; removing or adding an entry that does
\* not qualify leaves the area percent unchanged.
C1_AreaPercentIsMeanOfQualifying ==
    output.op = "processAreaScore" =>
      /\ ~output.result.threw
      /\ output.result.value.scorePercent = MeanOfQualifying(InputEntries)
      /\ \A i \in 1..Len(InputEntries) :
           ~Qualifies(InputEntries[i]) =>
             processAreaScore(Area(1, RemoveAt(InputEntries, i))).value.scorePercent
               = output.result.value.scorePercent
      /\ \A e \in AreaEntryChoices :
           ~Qualifies(e) =>
             processAreaScore(Area(1, Append(InputEntries, e))).value.scorePercent
               = output.result.value.scorePercent

\* an area with two qualifying entries whose mean is no integer, next to an
\* excluded entry that carries a percent of its own
C1_Witness ==
    /\ output.op = "processAreaScore"
    /\ Cardinality({i \in 1..Len(InputEntries) : Qualifies(InputEntries[i])}) = 2
    /\ \E i \in 1..Len(InputEntries) :
         /\ ~Qualifies(InputEntries[i])
         /\ Get(InputEntries[i], "scorePercent").type = "number"
    /\ output.result.value.scorePercent.den = 2

(***************************************************************************)
(* ScoreCalculator.calculateOverallScore                                   *)
(***************************************************************************)
\* the filter area => area.scorePercent >= 0, which keeps the zero areas
IsScoredArea_KeepsZero(area) == LessEq(Num(0), area.scorePercent)

\* the filter callback area => area.scorePercent > 0
IsScoredArea(area) == LessThan(Num(0), area.scorePercent)

RECURSIVE SumAreaPercent(_)
SumAreaPercent(areas) ==
    IF areas = <<>> THEN Num(0)
    ELSE Plus(SumAreaPercent(SubSeq(areas, 1, Len(areas) - 1)),
              areas[Len(areas)].scorePercent)

calculateOverallScore(areaScores) ==
    LET scoredAreas == SelectSeq(areaScores, IsScoredArea)
    IN  IF Len(scoredAreas) = 0
        THEN [scorePercent |-> Num(0)]
        ELSE [scorePercent |->
                DivideBy(SumAreaPercent(scoredAreas), Len(scoredAreas))]

(***************************************************************************)
(* SpecOverall: calculateOverallScore applied to a list of area percents.  *)
(***************************************************************************)
AreaPercentChoices ==
    {Num(0), Rat(1, 3), Num(60), Rat(159, 2), Num(80), Num(100)}

ProcessedArea(percent) ==
    [id |-> Num(1), title |-> Str("area"), scorePercent |-> percent,
     scoreEntries |-> Arr(<<>>)]

OverallInputs ==
    {[i \in 1..Len(ps) |-> ProcessedArea(ps[i])] :
        ps \in SeqsOf(AreaPercentChoices, 0, MaxPercents)}

InitOverall ==
    /\ input \in OverallInputs
    /\ output = NoOutput
    /\ Idle

CalculateOverallScore ==
    /\ output = NoOutput
    /\ output' = [op |-> "calculateOverallScore",
                  result |-> calculateOverallScore(input)]
    /\ UNCHANGED <<input, errors, warnings, calls,
                   entityFiles, idx, allScores, batchErrors, outputFile, pc>>

NextOverall == CalculateOverallScore

SpecOverall == InitOverall /\ [][NextOverall]_vars

RECURSIVE SumOfAreaPercents(_, _)
SumOfAreaPercents(areas, S) ==
    IF S = {} THEN Num(0)
    ELSE LET i == CHOOSE j \in S : TRUE
         IN  Plus(areas[i].scorePercent, SumOfAreaPercents(areas, S \ {i}))

\* C2: calculateOverallScore returns the mean of the area percents that are
\* strictly greater than 0, and 0 when none is: a zero area is left out of the
\* mean (areas [0, 80, 60] give 70).
C2_OverallIsMeanOfPositiveAreas ==
    output.op = "calculateOverallScore" =>
      LET P == {i \in 1..Len(input) : input[i].scorePercent.num > 0}
      IN  /\ P = {} => output.result.scorePercent = Num(0)
          /\ P # {} =>
               output.result.scorePercent
                 = DivideBy(SumOfAreaPercents(input, P), Cardinality(P))
          /\ input = <<ProcessedArea(Num(0)), ProcessedArea(Num(80)),
                       ProcessedArea(Num(60))>>
               => output.result.scorePercent = Num(70)

\* the list [0, 80, 60] has been reduced
C2_Witness ==
    /\ output.op = "calculateOverallScore"
    /\ input = <<ProcessedArea(Num(0)), ProcessedArea(Num(80)),
                 ProcessedArea(Num(60))>>
    /\ output.result.scorePercent = Num(70)

(***************************************************************************)
(* SpecBands: getScoreLabel and getScoreSuccess applied to a percent.      *)
(***************************************************************************)
IntegerPercents == {Num(p) : p \in 0..100}

InitBands ==
    /\ input \in IntegerPercents
    /\ output = NoOutput
    /\ Idle

GetScoreBands ==
    /\ output = NoOutput
    /\ output' = [op |-> "getScoreBands",
                  scoreLabel |-> getScoreLabel(input),
                  scoreSuccess |-> getScoreSuccess(input)]
    /\ UNCHANGED <<input, errors, warnings, calls,
                   entityFiles, idx, allScores, batchErrors, outputFile, pc>>

NextBands == GetScoreBands

SpecBands == InitBands /\ [][NextBands]_vars

\* the bands of the documented table (PRE_COMMIT_HOOKS.md, spec section 3)
TableSuccess(p) ==
    CASE p >= 80 -> "success"
      [] p >= 70 /\ p <= 79 -> "almost-success"
      [] p >= 50 /\ p <= 69 -> "partial"
      [] p >= 30 /\ p <= 49 -> "almost-failure"
      [] OTHER -> "failure"

TableLabel(p) ==
    CASE p >= 70 -> "Green"
      [] p >= 30 /\ p <= 69 -> "Yellow"
      [] OTHER -> "Red"

Unparsable == [parses |-> FALSE]
FileOf(data) == [parses |-> TRUE, data |-> data]

\* new Date().toISOString()
Now == Str("now")

\* data.areaScores.map(area => this.processAreaScore(area)), as the results
\* of the calls up to and including the first that throws
ProcessedAreaResults(areas) == [i \in 1..Len(areas) |-> processAreaScore(areas[i])]

\* ...(value && value !== 'default' && { namespace: value })
NamespaceSpread(entityRef) ==
    LET ns == Get(entityRef, "namespace")
    IN  IF Truthy(ns) /\ ns # Str("default")
        THEN [namespace |-> ns]
        ELSE [f \in {} |-> Undefined]

\* ...(data[field] && { [field]: data[field] })
OptionalSpread(data, field) ==
    IF Truthy(Get(data, field))
    THEN [f \in {field} |-> Get(data, field)]
    ELSE [f \in {} |-> Undefined]

\* the area summary with the raw entries copied along
AreaSummary_KeepsEntries(area) ==
    Obj([id |-> area.id,
         title |-> area.title,
         scorePercent |-> MathRound(area.scorePercent),
         scoreLabel |-> Str(getScoreLabel(area.scorePercent)),
         scoreSuccess |-> Str(getScoreSuccess(area.scorePercent)),
         scoreEntries |-> area.scoreEntries])

\* the area summary built at lines 119-125
AreaSummary(area) ==
    Obj([id |-> area.id,
         title |-> area.title,
         scorePercent |-> MathRound(area.scorePercent),
         scoreLabel |-> Str(getScoreLabel(area.scorePercent)),
         scoreSuccess |-> Str(getScoreSuccess(area.scorePercent))])

\* the object built at lines 105-126
FinalScore(data, processedAreaScores, overallScore) ==
    Obj(Merge(Merge(Merge(
        [entityRef |->
            Obj(Merge([kind |-> Get(Get(data, "entityRef"), "kind"),
                       name |-> Get(Get(data, "entityRef"), "name")],
                      NamespaceSpread(Get(data, "entityRef")))),
         generatedDateTimeUtc |->
            IF Truthy(Get(data, "generatedDateTimeUtc"))
            THEN Get(data, "generatedDateTimeUtc") ELSE Now,
         scorePercent |-> MathRound(overallScore.scorePercent),
         scoreLabel |-> Str(getScoreLabel(overallScore.scorePercent)),
         scoreSuccess |-> Str(getScoreSuccess(overallScore.scorePercent))],
        OptionalSpread(data, "scoringReviewer")),
        OptionalSpread(data, "scoringReviewDate")),
        [areaScores |->
            Arr([i \in 1..Len(processedAreaScores) |->
                    AreaSummary(processedAreaScores[i])])]))

\* processEntityFile, with its locals: [result, processedAreaScores, overallScore]
ProcessEntityFileRun(file) ==
    LET none == [processedAreaScores |-> <<>>, overallScore |-> [scorePercent |-> Num(0)]]
    IN
    IF ~file.parses THEN [result |-> Threw("SyntaxError")] @@ none
    ELSE IF ~CanRead(file.data) THEN [result |-> Threw("TypeError")] @@ none
    ELSE IF ~Truthy(Get(file.data, "entityRef")) \/ ~Truthy(Get(file.data, "areaScores"))
         THEN [result |-> Threw("Invalid entity score structure")] @@ none
    ELSE IF ~IsArray(Get(file.data, "areaScores"))
         THEN [result |-> Threw("TypeError")] @@ none
    ELSE
      LET results == ProcessedAreaResults(Get(file.data, "areaScores").items)
      IN  IF \E i \in 1..Len(results) : results[i].threw
          THEN [result |-> Threw("TypeError")] @@ none
          ELSE
            LET processedAreaScores == [i \in 1..Len(results) |-> results[i].value]
                overallScore == calculateOverallScore(processedAreaScores)
            IN  [result |-> Returned(FinalScore(file.data, processedAreaScores,
                                                overallScore)),
                 processedAreaScores |-> processedAreaScores,
                 overallScore |-> overallScore]

processEntityFile(file) == ProcessEntityFileRun(file).result

(***************************************************************************)
(* ScoreValidator.calculateScores                                          *)
(***************************************************************************)
\* the test of line 189
CountsInValidator(entry) ==
    /\ Get(entry, "scorePercent") # Null
    /\ Get(entry, "scoreSuccess") # Str("unknown")
    /\ ~Truthy(Get(entry, "isOptional"))

\* the inner forEach: [areaScore, areaWeight] after the entries
RECURSIVE AreaAccumulate(_)
AreaAccumulate(entries) ==
    IF entries = <<>> THEN [areaScore |-> Num(0), areaWeight |-> 0]
    ELSE LET before == AreaAccumulate(SubSeq(entries, 1, Len(entries) - 1))
             entry == entries[Len(entries)]
         IN  IF CountsInValidator(entry)
             THEN [areaScore |-> Plus(before.areaScore, Get(entry, "scorePercent")),
                   areaWeight |-> before.areaWeight + 1]
             ELSE before

\* the outer forEach: [totalScore, totalWeight] after the areas
RECURSIVE TotalAccumulate(_)
TotalAccumulate(areas) ==
    IF areas = <<>> THEN [totalScore |-> Num(0), totalWeight |-> 0]
    ELSE LET before == TotalAccumulate(SubSeq(areas, 1, Len(areas) - 1))
             acc == AreaAccumulate(Get(areas[Len(areas)], "scoreEntries").items)
         IN  IF acc.areaWeight > 0
             THEN [totalScore |->
                      Plus(before.totalScore,
                           IF acc.areaScore = NaN THEN NaN
                           ELSE DivideBy(acc.areaScore, acc.areaWeight)),
                   totalWeight |-> before.totalWeight + 1]
             ELSE before

\* data.areaScores.forEach(...) and area.scoreEntries.forEach(...) throw a
\* TypeError on what is no array, entry.scorePercent on a null entry
CalculateScoresThrows(data) ==
    \/ ~CanRead(data)
    \/ ~IsArray(Get(data, "areaScores"))
    \/ \E i \in 1..Len(Get(data, "areaScores").items) :
         LET area == Get(data, "areaScores").items[i]
         IN  \/ ~CanRead(area)
             \/ ~IsArray(Get(area, "scoreEntries"))
             \/ \E j \in 1..Len(Get(area, "scoreEntries").items) :
                  ~CanRead(Get(area, "scoreEntries").items[j])

calculateScores(data) ==
    IF CalculateScoresThrows(data) THEN Threw("TypeError")
    ELSE LET total == TotalAccumulate(Get(data, "areaScores").items)
         IN  Returned([overall |->
                 IF total.totalWeight > 0
                 THEN (IF total.totalScore = NaN THEN NaN
                       ELSE DivideBy(total.totalScore, total.totalWeight))
                 ELSE Num(0)])

(***************************************************************************)
(* SpecRecord: one record given to processEntityFile, to the validator's   *)
(* calculateScores, and aggregated a second time from its own output.      *)
(***************************************************************************)
RecordEntryChoices ==
    { Entry("failure", Num(0), FALSE),
      Entry("failure", Rat(2, 5), FALSE),      \* the percent 0.4
      Entry("failure", Num(1), FALSE),
      Entry("almost-success", Num(79), FALSE),
      Entry("success", Num(80), FALSE),
      EntryNoPercent("partial", FALSE) }

RECURSIVE SumLens(_)
SumLens(lens) == IF lens = <<>> THEN 0 ELSE Head(lens) + SumLens(Tail(lens))

\* the ways to cut t entries into at most MaxAreas areas
Cuts(t) == {lens \in SeqsOf(0..t, 0, MaxAreas) : SumLens(lens) = t}

AreasOf(flat, lens) ==
    [i \in 1..Len(lens) |->
        Area(i, SubSeq(flat, SumLens(SubSeq(lens, 1, i - 1)) + 1,
                             SumLens(SubSeq(lens, 1, i))))]

RecordOf(areas) ==
    Obj([entityRef |-> Obj([kind |-> Str("component"), name |-> Str("svc")]),
         generatedDateTimeUtc |-> Str("2024-01-15T10:00:00Z"),
         areaScores |-> Arr(areas)])

\* the records: at most MaxAreas areas holding at most MaxRecordEntries
\* entries together
InitRecord ==
    /\ \E t \in 0..MaxRecordEntries :
         \E flat \in [1..t -> RecordEntryChoices] :
           \E lens \in Cuts(t) :
             input = RecordOf(AreasOf(flat, lens))
    /\ output = NoOutput
    /\ Idle

\* processEntityFile with processAreaScore writing the percent it computed
\* into the area it was given
ProcessEntityFile_WritesIntoAreas ==
    /\ output = NoOutput
    /\ output' = [op |-> "processEntityFile"] @@ ProcessEntityFileRun(FileOf(input))
    /\ input' = IF output'.result.threw THEN input
                ELSE Obj(Merge(input.fields,
                               [areaScores |->
                                  Arr([i \in 1..Len(output'.processedAreaScores) |->
                                         Obj(output'.processedAreaScores[i])])]))
    /\ UNCHANGED <<errors, warnings, calls,
                   entityFiles, idx, allScores, batchErrors, outputFile, pc>>

ProcessEntityFile ==
    /\ output = NoOutput
    /\ output' = [op |-> "processEntityFile"] @@ ProcessEntityFileRun(FileOf(input))
    /\ UNCHANGED <<input, errors, warnings, calls,
                   entityFiles, idx, allScores, batchErrors, outputFile, pc>>

CalculateScores ==
    /\ output = NoOutput
    /\ output' = [op |-> "calculateScores", result |-> calculateScores(input)]
    /\ UNCHANGED <<input, errors, warnings, calls,
                   entityFiles, idx, allScores, batchErrors, outputFile, pc>>

\* the record whose areas each hold one entry: the rounded percent of the
\* area summary, not optional, with the category derived from the percent
RoundTripRecord(finalScore) ==
    LET summaries == Get(finalScore, "areaScores").items
    IN  RecordOf([i \in 1..Len(summaries) |->
            Area(i, << Entry(getScoreSuccess(Get(summaries[i], "scorePercent")),
                             Get(summaries[i], "scorePercent"), FALSE) >>)])

AggregateAgain ==
    /\ output.op = "processEntityFile"
    /\ ~output.result.threw
    /\ input' = RoundTripRecord(output.result.value)
    /\ output' = [op |-> "aggregateAgain", first |-> output]
                   @@ ProcessEntityFileRun(FileOf(input'))
    /\ UNCHANGED <<errors, warnings, calls,
                   entityFiles, idx, allScores, batchErrors, outputFile, pc>>

NextRecord == ProcessEntityFile \/ CalculateScores \/ AggregateAgain

SpecRecord == InitRecord /\ [][NextRecord]_vars

(***************************************************************************)
(* Claims about a whole record (SpecRecord).                               *)
(***************************************************************************)
InputAreas == input.fields.areaScores.items

\* every entry of the record that the Aggregator includes has an integer percent
IncludedPercentsAreIntegers ==
    \A i \in 1..Len(InputAreas) :
      \A j \in 1..Len(InputAreas[i].fields.scoreEntries.items) :
        LET entry == InputAreas[i].fields.scoreEntries.items[j]
        IN  Qualifies(entry) => entry.fields.scorePercent.den = 1

\* the ranges of a table that hold the percent
BandsHolding(table, percent) ==
    {i \in 1..Len(table) : InRange(percent, table[i])}

\* the percent lies in exactly one range of each table, and the two names
\* written next to it are the names of those ranges
InOneBandEach(percent, scoreSuccess, scoreLabel) ==
    /\ Cardinality(BandsHolding(SCORE_SUCCESS_MAPPING, percent)) = 1
    /\ Cardinality(BandsHolding(COLOR_MAPPING, percent)) = 1
    /\ \E i \in BandsHolding(SCORE_SUCCESS_MAPPING, percent) :
         scoreSuccess = Str(SCORE_SUCCESS_MAPPING[i].name)
    /\ \E i \in BandsHolding(COLOR_MAPPING, percent) :
         scoreLabel = Str(COLOR_MAPPING[i].name)

\* C3: for a record whose included entry percents are integers, every computed
\* percent (each area mean and the overall mean, fractional means included)
\* lies in exactly one range of the success table and exactly one range of the
\* color table, and getScoreSuccess / getScoreLabel return that band, never
\* their fallback.
C3_ComputedPercentsFallInOneBand ==
    (/\ output.op = "processEntityFile"
     /\ ~output.result.threw
     /\ IncludedPercentsAreIntegers) =>
      LET finalScore == output.result.value
          summaries == Get(finalScore, "areaScores").items
      IN  /\ InOneBandEach(output.overallScore.scorePercent,
                           Get(finalScore, "scoreSuccess"),
                           Get(finalScore, "scoreLabel"))
          /\ \A i \in 1..Len(summaries) :
               InOneBandEach(output.processedAreaScores[i].scorePercent,
                             Get(summaries[i], "scoreSuccess"),
                             Get(summaries[i], "scoreLabel"))

\* the unrounded overall percent of the Aggregator: processAreaScore on each
\* area, then calculateOverallScore
AggregatorOverall(data) ==
    LET areas == Get(data, "areaScores").items
    IN  calculateOverallScore(
            [i \in 1..Len(areas) |-> processAreaScore(areas[i]).value]).scorePercent

\* C5: for a record with array areaScores and array scoreEntries, the overall
\* percent of ScoreValidator.calculateScores equals the unrounded overall
\* percent the Aggregator computes for the same record.
C5_ValidatorOverallEqualsAggregatorOverall ==
    output.op = "calculateScores" =>
      /\ ~output.result.threw
      /\ output.result.value.overall = AggregatorOverall(input)

\* |x - y| <= 1
WithinOnePoint(x, y) == LessEq(MathAbs(Minus(x, y)), Num(1))

\* an area of the first aggregation whose percent is positive and rounds to 0
SomeAreaRoundsToZero(run) ==
    \E i \in 1..Len(run.processedAreaScores) :
      /\ LessThan(Num(0), run.processedAreaScores[i].scorePercent)
      /\ LessThan(run.processedAreaScores[i].scorePercent, Rat(1, 2))

\* C10 as stated: aggregating the rounded area percents of a NormalizedRecord
\* again reproduces the overall percent of the first aggregation within one
\* point, also when an area's percent is positive and rounds to 0.
C10_RoundTripWithinOnePoint ==
    output.op = "aggregateAgain" =>
      WithinOnePoint(Get(output.result.value, "scorePercent"),
                     Get(output.first.result.value, "scorePercent"))

\* C10 as amended: when no area percent of the first aggregation lies strictly
\* between 0 and 0.5, the second aggregation gives an overall percent within
\* one point of the first, unrounded and as written (rounded).
C10_RoundTripWithinOnePointUnlessAreaRoundsToZero ==
    (output.op = "aggregateAgain" /\ ~SomeAreaRoundsToZero(output.first)) =>
      /\ ~output.result.threw
      /\ WithinOnePoint(output.overallScore.scorePercent,
                        output.first.overallScore.scorePercent)
      /\ WithinOnePoint(Get(output.result.value, "scorePercent"),
                        Get(output.first.result.value, "scorePercent"))

\* a second aggregation of a record with a fractional area percent that was
\* rounded, whose unrounded overall percent moved
C10_Witness ==
    /\ output.op = "aggregateAgain"
    /\ ~SomeAreaRoundsToZero(output.first)
    /\ \E i \in 1..Len(output.first.processedAreaScores) :
         output.first.processedAreaScores[i].scorePercent.den # 1
    /\ output.overallScore.scorePercent # output.first.overallScore.scorePercent

\* r is an integer nearest to x
IsNearestInteger(r, x) ==
    /\ IsNumber(r)
    /\ IsNumber(x)
    /\ r.den = 1
    /\ 2 * Abs(r.num * x.den - x.num) <= x.den

\* C19: the areaScores of the NormalizedRecord holds one summary per area of
\* the source, in the order of the source, with the id and title of the area
\* and the area percent rounded to the nearest integer, and without the
\* scoreEntries.
C19_NormalizedRecordIsProjection ==
    (output.op = "processEntityFile" /\ ~output.result.threw) =>
      LET summaries == Get(output.result.value, "areaScores").items
      IN  /\ Len(summaries) = Len(InputAreas)
          /\ \A i \in 1..Len(summaries) :
               /\ Get(summaries[i], "id") = Get(InputAreas[i], "id")
               /\ Get(summaries[i], "title") = Get(InputAreas[i], "title")
               /\ IsNearestInteger(Get(summaries[i], "scorePercent"),
                                   MeanOfQualifying(InputAreas[i].fields.scoreEntries.items))
               /\ ~HasField(summaries[i], "scoreEntries")

\* a record of two areas, one of them with the mean 79.5, has been normalized
C19_Witness ==
    /\ output.op = "processEntityFile"
    /\ ~output.result.threw
    /\ Len(InputAreas) = 2
    /\ \E i \in 1..2 :
         /\ MeanOfQualifying(InputAreas[i].fields.scoreEntries.items) = Rat(159, 2)
         /\ Get(Get(output.result.value, "areaScores").items[i], "scorePercent") = Num(80)

\* the sequence with its elements in the order given by the permutation p
PermutedBy(seq, p) == [i \in 1..Len(seq) |-> seq[p[i]]]

\* the record with its areas in the order p
WithAreasPermuted(data, p) ==
    Obj(Merge(data.fields,
              [areaScores |-> Arr(PermutedBy(Get(data, "areaScores").items, p))]))

\* the record with the entries of its area a in the order p
WithEntriesPermuted(data, a, p) ==
    LET areas == Get(data, "areaScores").items
    IN  Obj(Merge(data.fields,
                  [areaScores |->
                     Arr([i \in 1..Len(areas) |->
                            IF i = a
                            THEN Obj(Merge(areas[i].fields,
                                           [scoreEntries |->
                                              Arr(PermutedBy(areas[i].fields.scoreEntries.items,
                                                             p))]))
                            ELSE areas[i]])]))

\* the locals and the result of a run with the processed areas in the order p
RunWithAreasPermuted(run, p) ==
    [result |-> Returned(WithAreasPermuted(run.result.value, p)),
     processedAreaScores |-> PermutedBy(run.processedAreaScores, p),
     overallScore |-> run.overallScore]

\* the locals and the result of a run with the entries that processed area a
\* carries along in the order p
RunWithEntriesPermuted(run, a, p) ==
    [run EXCEPT !.processedAreaScores[a].scoreEntries =
                   Arr(PermutedBy(@.items, p))]

ScoredParts(finalScore) ==
    {finalScore} \cup
    {Get(finalScore, "areaScores").items[i] :
       i \in 1..Len(Get(finalScore, "areaScores").items)}

\* the pairs of the fixed table
FixedPairs ==
    { <<Str("success"), Str("Green")>>,
      <<Str("almost-success"), Str("Green")>>,
      <<Str("partial"), Str("Yellow")>>,
      <<Str("almost-failure"), Str("Yellow")>>,
      <<Str("failure"), Str("Red")>> }

\* C26: in every NormalizedRecord the (scoreSuccess, scoreLabel) pair of the
\* overall score and of every area summary is one of the five pairs of the
\* fixed table, whatever fractional means the entry percents in [0,100] give.
C26_SuccessAndLabelPairIsInTable ==
    (output.op = "processEntityFile" /\ ~output.result.threw) =>
      \A part \in ScoredParts(output.result.value) :
        <<Get(part, "scoreSuccess"), Get(part, "scoreLabel")>> \in FixedPairs

\* C27: in every NormalizedRecord the scoreLabel and scoreSuccess written next
\* to a scorePercent, overall and per area, are the ones the tables give for
\* that written, rounded percent.
C27_LabelsMatchWrittenPercent ==
    (output.op = "processEntityFile" /\ ~output.result.threw) =>
      \A part \in ScoredParts(output.result.value) :
        /\ Get(part, "scoreLabel") = Str(TableLabel(Get(part, "scorePercent").num))
        /\ Get(part, "scoreSuccess") = Str(TableSuccess(Get(part, "scorePercent").num))

(***************************************************************************)
(* validate-scores.js: class ScoreValidator.                               *)
(* The methods thread v = [errors, warnings, threw]: this.errors and       *)
(* this.warnings, and whether an exception is propagating.  What was       *)
(* pushed before a throw stays in the lists.  A message is a record of its *)
(* text, its interpolated argument and the index path of its prefix.       *)
(***************************************************************************)
Message(text, arg, path) == [text |-> text, arg |-> arg, path |-> path]

addError(v, message) == [v EXCEPT !.errors = Append(@, message)]

addWarning(v, message) == [v EXCEPT !.warnings = Append(@, message)]

Throw(v) == [v EXCEPT !.threw = TRUE]

\* validate-scores.js has its own copy of the success table
VALIDATOR_SCORE_SUCCESS_MAPPING ==
    << [name |-> "success",        min |-> 80, max |-> 100],
       [name |-> "almost-success", min |-> 70, max |-> 79],
       [name |-> "partial",        min |-> 50, max |-> 69],
       [name |-> "almost-failure", min |-> 30, max |-> 49],
       [name |-> "failure",        min |-> 0,  max |-> 29] >>

getScoreCategory(percent) ==
    FirstRange(VALIDATOR_SCORE_SUCCESS_MAPPING, percent, "unknown")

\* fields.forEach(field => { if (!(field in obj) || obj[field] === null ...
RECURSIVE validateRequired(_, _, _)
validateRequired(v, obj, fields) ==
    IF v.threw THEN v
    ELSE IF fields = <<>> THEN v
    ELSE IF ~CanTestIn(obj) THEN Throw(v)
    ELSE LET field == Head(fields)
             v1 == IF ~HasField(obj, field) \/ Get(obj, field) = Null
                   THEN addError(v, Message("Missing required field", field, <<>>))
                   ELSE v
         IN  validateRequired(v1, obj, Tail(fields))

EntityKinds == {Str("component"), Str("api"), Str("system"), Str("resource")}

validateEntityRef(v, entityRef) ==
    IF v.threw THEN v
    ELSE IF ~Truthy(entityRef) \/ typeof(entityRef) # "object"
    THEN addError(v, Message("entityRef must be an object", "", <<>>))
    ELSE LET v1 == validateRequired(v, entityRef, <<"kind", "name">>)
             kind == Get(entityRef, "kind")
         IN  IF ~v1.threw /\ Truthy(kind) /\ kind \notin EntityKinds
             THEN addWarning(v1, Message("Unusual entity kind", "kind", <<>>))
             ELSE v1

\* the date strings that new Date(...) parses
ParsableDates == {"2024-01-15T10:00:00Z", "2024-02-01T09:00:00Z"}

\* !isNaN(new Date(x).getTime())
IsValidDate(x) ==
    CASE x.type = "string" -> x.val \in ParsableDates
      [] x.type \in {"null", "number", "boolean"} -> TRUE
      [] OTHER -> FALSE

validateDateTime(v, dateStr, fieldName) ==
    IF v.threw THEN v
    ELSE IF ~IsValidDate(dateStr)
    THEN addError(v, Message("is not a valid ISO date", fieldName, <<>>))
    ELSE v

\* the list of line 151 with one more category
ScoreSuccessValues_WithGreat ==
    {Str("success"), Str("almost-success"), Str("partial"),
     Str("almost-failure"), Str("failure"), Str("unknown"), Str("great")}

ScoreSuccessValues ==
    {Str("success"), Str("almost-success"), Str("partial"),
     Str("almost-failure"), Str("failure"), Str("unknown")}

\* the comment strings that include 'TODO:'
CommentsWithTodo == {"TODO: describe"}

validateScoreEntry(v, entry, path) ==
    LET v1 == validateRequired(v, entry, <<"id", "title", "scoreSuccess", "details">>)
        percent == Get(entry, "scorePercent")
        success == Get(entry, "scoreSuccess")
        comments == Get(entry, "selfAssessmentComments")
        v2 == IF typeof(Get(entry, "id")) # "number"
              THEN addError(v1, Message("id must be a number", "", path))
              ELSE v1
        v3 == IF /\ percent # Null
                 /\ percent # Undefined
                 /\ \/ typeof(percent) # "number"
                    \/ LessThan(percent, Num(0))
                    \/ LessThan(Num(100), percent)
              THEN addError(v2, Message("scorePercent must be a number between 0-100",
                                        "", path))
              ELSE v2
        v4 == IF success \notin ScoreSuccessValues
              THEN addError(v3, Message("scoreSuccess must be one of", "", path))
              ELSE v3
        v5 == IF /\ percent # Null
                 /\ success # Str("unknown")
                 /\ Str(getScoreCategory(percent)) # success
              THEN addWarning(v4, Message("scorePercent suggests", 
                                          getScoreCategory(percent), path))
              ELSE v4
    IN  IF v1.threw THEN v1
        ELSE IF ~Truthy(comments) THEN v5
        ELSE IF comments.type = "string"
        THEN (IF comments.val \in CommentsWithTodo
              THEN addWarning(v5, Message("Self-assessment comments contain TODO placeholder",
                                          "", path))
              ELSE v5)
        ELSE IF comments.type = "array"
        THEN (IF \E i \in 1..Len(comments.items) : comments.items[i] = Str("TODO:")
              THEN addWarning(v5, Message("Self-assessment comments contain TODO placeholder",
                                          "", path))
              ELSE v5)
        ELSE Throw(v5)

\* area.scoreEntries.forEach((entry, entryIndex) => ...), the first k entries
RECURSIVE ValidateEntries(_, _, _, _)
ValidateEntries(v, entries, index, k) ==
    IF k = 0 THEN v
    ELSE LET before == ValidateEntries(v, entries, index, k - 1)
         IN  IF before.threw THEN before
             ELSE validateScoreEntry(before, entries[k], <<index, k - 1>>)

\* validateAreaScore without the test of lines 129-131
validateAreaScore_AllowsEmpty(v, area, index) ==
    LET v1 == validateRequired(v, area, <<"id", "title", "scoreEntries">>)
        v2 == IF typeof(Get(area, "id")) # "number"
              THEN addError(v1, Message("id must be a number", "", <<index>>))
              ELSE v1
        scoreEntries == Get(area, "scoreEntries")
    IN  IF v1.threw THEN v1
        ELSE IF ~IsArray(scoreEntries)
        THEN addError(v2, Message("scoreEntries must be an array", "", <<index>>))
        ELSE ValidateEntries(v2, scoreEntries.items, index, Len(scoreEntries.items))

validateAreaScore(v, area, index) ==
    LET v1 == validateRequired(v, area, <<"id", "title", "scoreEntries">>)
        v2 == IF typeof(Get(area, "id")) # "number"
              THEN addError(v1, Message("id must be a number", "", <<index>>))
              ELSE v1
        scoreEntries == Get(area, "scoreEntries")
    IN  IF v1.threw THEN v1
        ELSE IF ~IsArray(scoreEntries)
        THEN addError(v2, Message("scoreEntries must be an array", "", <<index>>))
        ELSE LET v3 == IF Len(scoreEntries.items) = 0
                       THEN addError(v2, Message("scoreEntries cannot be empty",
                                                 "", <<index>>))
                       ELSE v2
             IN  ValidateEntries(v3, scoreEntries.items, index, Len(scoreEntries.items))

\* data.areaScores.forEach((area, index) => ...), the first k areas
RECURSIVE ValidateAreas(_, _, _)
ValidateAreas(v, areas, k) ==
    IF k = 0 THEN v
    ELSE LET before == ValidateAreas(v, areas, k - 1)
         IN  IF before.threw THEN before
             ELSE validateAreaScore(before, areas[k], k - 1)

validateCalculatedScores(v, data) ==
    IF v.threw THEN v
    ELSE LET calculatedScores == calculateScores(data)
             scorePercent == Get(data, "scorePercent")
         IN  IF calculatedScores.threw THEN Throw(v)
             ELSE IF /\ Truthy(scorePercent)
                     /\ LessThan(Num(1),
                                 MathAbs(Minus(scorePercent,
                                               calculatedScores.value.overall)))
             THEN addWarning(v, Message("Overall scorePercent differs from calculated value",
                                        "", <<>>))
             ELSE v

\* the value returned at line 80 with the warnings counted in
IsValid_CountsWarnings(v) == Len(v.errors) = 0 /\ Len(v.warnings) = 0

\* return this.errors.length === 0
IsValid(v) == Len(v.errors) = 0

\* validateEntityScore up to its return: the lists and whether it threw
validateEntityScore(v, data) ==
    LET v1 == validateRequired(v, data, <<"entityRef", "generatedDateTimeUtc",
                                          "areaScores">>)
        v2 == validateEntityRef(v1, Get(data, "entityRef"))
        v3 == validateDateTime(v2, Get(data, "generatedDateTimeUtc"),
                               "generatedDateTimeUtc")
        v4 == IF Truthy(Get(data, "scoringReviewDate"))
              THEN validateDateTime(v3, Get(data, "scoringReviewDate"),
                                    "scoringReviewDate")
              ELSE v3
        areaScores == Get(data, "areaScores")
        v5 == IF IsArray(areaScores)
              THEN ValidateAreas(v4, areaScores.items, Len(areaScores.items))
              ELSE addError(v4, Message("areaScores must be an array", "", <<>>))
    IN  IF v1.threw THEN v1
        ELSE IF v5.threw THEN v5
        ELSE validateCalculatedScores(v5, data)

\* a path that does not exist
NoFile == [exists |-> FALSE]

\* validateFile: the lists after the call, whether it threw, and its value
validateFile(v, file) ==
    IF "exists" \in DOMAIN file
    THEN [after |-> addError(v, Message("File not found", "", <<>>)), valid |-> FALSE]
    ELSE IF ~file.parses
    THEN [after |-> addError(v, Message("Invalid JSON", "", <<>>)), valid |-> FALSE]
    ELSE LET after == validateEntityScore(v, file.data)
         IN  [after |-> after, valid |-> IsValid(after)]

(***************************************************************************)
(* SpecValidator: one ScoreValidator instance validating files, as the CLI *)
(* loop of validate-scores.js does, or replaced by a new instance.         *)
(***************************************************************************)
GoodEntityRef == Obj([kind |-> Str("component"), name |-> Str("svc")])
GoodDate == Str("2024-01-15T10:00:00Z")
GoodEntry == Entry("success", Num(80), FALSE)
GoodArea == Area(1, <<GoodEntry>>)

DataOf(entityRef, areaScores) ==
    Obj([entityRef |-> entityRef, generatedDateTimeUtc |-> GoodDate,
         areaScores |-> areaScores])

\* the record with one area holding one entry
DataOfEntry(entry) == DataOf(GoodEntityRef, Arr(<<Area(1, <<entry>>)>>))

With(data, field, value) ==
    Obj(Merge(data.fields, [f \in {field} |-> value]))

GoodData == DataOf(GoodEntityRef, Arr(<<GoodArea>>))

\* records without an error-level defect
CleanData ==
    { GoodData,
      With(GoodData, "scorePercent", Num(80)),
      With(GoodData, "scorePercent", Num(50)),
      With(GoodData, "scorePercent", Num(0)),
      With(GoodData, "scoringReviewDate", Str("2024-02-01T09:00:00Z")),
      DataOf(Obj([kind |-> Str("service"), name |-> Str("svc")]), Arr(<<GoodArea>>)),
      DataOfEntry(Entry("partial", Num(85), FALSE)),
      DataOf(GoodEntityRef,
             Arr(<<GoodArea, Area(2, <<GoodEntry, Entry("success", Num(55), FALSE)>>)>>)),
      DataOfEntry(Entry("unknown", Num(85), FALSE)),
      DataOfEntry(Entry("unknown", Null, FALSE)),
      DataOfEntry(Entry("partial", Null, FALSE)),
      DataOfEntry(EntryNoPercent("partial", FALSE)),
      DataOfEntry(With(GoodEntry, "selfAssessmentComments", Str("TODO: describe"))) }

\* records with a defect of content
DefectiveData ==
    { DataOfEntry(Entry("success", Num(105), FALSE)),
      DataOfEntry(Entry("failure", Num(-5), FALSE)),
      DataOfEntry(Entry("success", Obj([v |-> Num(1)]), FALSE)),
      DataOfEntry(Entry("great", Num(85), FALSE)),
      DataOfEntry(EntryNoPercent("great", FALSE)),
      DataOf(GoodEntityRef,
             Arr(<<GoodArea, Area(2, <<>>), Area(3, <<Entry("partial", Num(85), FALSE)>>)>>)),
      DataOf(Obj([kind |-> Str("service")]), Arr(<<GoodArea>>)),
      DataOf(GoodEntityRef, Arr(<<Area(1, <<>>)>>)),
      DataOf(GoodEntityRef,
             Arr(<<Area(1, <<>>), Area(2, <<Entry("success", Num(105), FALSE)>>)>>)),
      With(GoodData, "generatedDateTimeUtc", Str("yesterday")),
      DataOf(Obj([kind |-> Str("component")]), Arr(<<GoodArea>>)),
      DataOf(Obj([name |-> Str("svc")]), Arr(<<GoodArea>>)),
      Obj([generatedDateTimeUtc |-> GoodDate, areaScores |-> Arr(<<GoodArea>>)]),
      Obj([entityRef |-> GoodEntityRef, generatedDateTimeUtc |-> GoodDate]),
      DataOf(GoodEntityRef, Str("none")),
      DataOf(GoodEntityRef, Arr(<<Null>>)),
      DataOf(GoodEntityRef, Arr(<<Num(7)>>)),
      DataOf(GoodEntityRef, Arr(<<Obj([id |-> Num(1), title |-> Str("area")])>>)),
      DataOf(GoodEntityRef,
             Arr(<<Obj([id |-> Num(1), title |-> Str("area"),
                        scoreEntries |-> Str("none")])>>)),
      DataOf(GoodEntityRef, Arr(<<Area(1, <<Null>>)>>)),
      DataOf(GoodEntityRef, Arr(<<Area(1, <<Num(7)>>)>>)),
      Null,
      Num(7) }

ValidatorFiles ==
    {NoFile, Unparsable} \cup {FileOf(data) : data \in CleanData \cup DefectiveData}

NewValidator == [errors |-> <<>>, warnings |-> <<>>, threw |-> FALSE]

InitValidator ==
    /\ input = NoFile
    /\ output = NoOutput
    /\ Idle

\* new ScoreValidator()
NewScoreValidator ==
    /\ errors # <<>> \/ warnings # <<>>
    /\ errors' = NewValidator.errors
    /\ warnings' = NewValidator.warnings
    /\ output' = NoOutput
    /\ UNCHANGED <<input, calls,
                   entityFiles, idx, allScores, batchErrors, outputFile, pc>>

\* validator.validateFile(filePath)
ValidateFile ==
    /\ calls < MaxValidations
    /\ \E file \in ValidatorFiles :
         LET run == validateFile([errors |-> errors, warnings |-> warnings,
                                  threw |-> FALSE], file)
         IN  /\ input' = file
             /\ errors' = run.after.errors
             /\ warnings' = run.after.warnings
             /\ output' = IF run.after.threw
                          THEN [op |-> "validateFile", threw |-> TRUE]
                          ELSE [op |-> "validateFile", threw |-> FALSE,
                                valid |-> run.valid,
                                errorsBefore |-> Len(errors),
                                warningsBefore |-> Len(warnings)]
    /\ calls' = calls + 1
    /\ UNCHANGED <<entityFiles, idx, allScores, batchErrors, outputFile, pc>>

NextValidator == NewScoreValidator \/ ValidateFile

SpecValidator == InitValidator /\ [][NextValidator]_vars

\* the file validated last parsed to a JSON object
InputIsRecord ==
    /\ "parses" \in DOMAIN input
    /\ input.parses
    /\ input.data.type = "object"

\* C6: validateEntityScore never throws for malformed content: for every
\* parsed JSON value (here already: every JSON object) the call returns
\* normally, with the defects in the errors list.
C6_ValidatorNeverThrowsOnContent ==
    (output.op = "validateFile" /\ InputIsRecord) => ~output.threw

\* C7: the flag returned by a validation is true exactly when the errors list
\* is empty, whatever the warnings list holds.
C7_ValidIffNoErrors ==
    (output.op = "validateFile" /\ ~output.threw) =>
      (output.valid <=> errors = <<>>)

\* a validation that returned true with a warning in the list
C7_Witness ==
    /\ output.op = "validateFile"
    /\ ~output.threw
    /\ output.valid
    /\ warnings # <<>>

\* the outcome of validating the file with a new ScoreValidator
ValidatedAlone(file) == validateFile(NewValidator, file)

\* C8: whatever the instance validated before, validating a record returns the
\* flag and reports the errors and warnings that validating it alone gives.
C8_ValidationDependsOnlyOnTheRecord ==
    (output.op = "validateFile" /\ InputIsRecord /\ ~output.threw) =>
      /\ output.valid = ValidatedAlone(input).valid
      /\ errors = ValidatedAlone(input).after.errors
      /\ warnings = ValidatedAlone(input).after.warnings

(***************************************************************************)
(* What one validation adds to the lists of the instance.                  *)
(***************************************************************************)
\* the validation of a parsed record has returned
Validated ==
    /\ output.op = "validateFile"
    /\ InputIsRecord
    /\ ~output.threw

\* the messages the validation pushed
AddedErrors == SubSeq(errors, output.errorsBefore + 1, Len(errors))
AddedWarnings == SubSeq(warnings, output.warningsBefore + 1, Len(warnings))

HasText(messages, text) ==
    \E m \in 1..Len(messages) : messages[m].text = text

HasTextAt(messages, text, path) ==
    \E m \in 1..Len(messages) :
      messages[m].text = text /\ messages[m].path = path

\* a JSON value that is there: neither absent nor null
IsPresent(x) == x # Undefined /\ x # Null

\* the areas of a validated record, and the entries of its area i
ValidatedAreas == Get(input.data, "areaScores").items
ValidatedEntries(i) == Get(ValidatedAreas[i], "scoreEntries").items

DriftText == "Overall scorePercent differs from calculated value"

\* the record's own scorePercent and the recomputed overall are more than
\* one point apart
DriftsApart(data) ==
    LessThan(Num(1),
             MathAbs(Minus(Get(data, "scorePercent"),
                           calculateScores(data).value.overall)))

\* C11: a validation adds the overall-percent drift warning exactly when the
\* record has a scorePercent of its own (0 included) that is more than one
\* point away from the recomputed overall percent, and never adds it as an
\* error.
C11_DriftWarningIffPresentAndApart ==
    Validated =>
      /\ HasText(AddedWarnings, DriftText)
           <=> (IsPresent(Get(input.data, "scorePercent")) /\ DriftsApart(input.data))
      /\ ~HasText(AddedErrors, DriftText)

MismatchText == "scorePercent suggests"

\* the declared category of the entry differs from the one of its percent
CategoryDiffers(entry) ==
    Str(getScoreCategory(Get(entry, "scorePercent"))) # Get(entry, "scoreSuccess")

\* C12: for every entry of a validated record, the mismatch warning is added
\* exactly when the entry has a scorePercent (neither null nor absent), its
\* scoreSuccess is not 'unknown', and the category of the percent differs
\* from the declared one; an entry without a scorePercent gets none.
C12_MismatchWarningOnlyWithPercent ==
    Validated =>
      \A i \in 1..Len(ValidatedAreas) :
        \A k \in 1..Len(ValidatedEntries(i)) :
          LET entry == ValidatedEntries(i)[k]
          IN  HasTextAt(AddedWarnings, MismatchText, <<i - 1, k - 1>>)
                <=> /\ IsPresent(Get(entry, "scorePercent"))
                    /\ Get(entry, "scoreSuccess") # Str("unknown")
                    /\ CategoryDiffers(entry)

\* the categories an entry may declare
DeclaredCategories ==
    {"success", "almost-success", "partial", "almost-failure", "failure", "unknown"}

\* an entry without a defect other than, possibly, a category that does not
\* match its percent
IsSoundEntry(entry) ==
    \E s \in DeclaredCategories \ {"unknown"} :
      \E p \in 0..100 : entry = Entry(s, Num(p), FALSE)

\* a record whose only defects are categories that do not match the percents
OnlyMismatches(data) ==
    LET areaScores == Get(data, "areaScores")
    IN  /\ IsArray(areaScores)
        /\ data = DataOf(GoodEntityRef, areaScores)
        /\ \A i \in 1..Len(areaScores.items) :
             LET entries == Get(areaScores.items[i], "scoreEntries")
             IN  /\ IsArray(entries)
                 /\ entries.items # <<>>
                 /\ areaScores.items[i] = Area(i, entries.items)
                 /\ \A k \in 1..Len(entries.items) : IsSoundEntry(entries.items[k])
        /\ \E i \in 1..Len(areaScores.items) :
             \E k \in 1..Len(Get(areaScores.items[i], "scoreEntries").items) :
               CategoryDiffers(Get(areaScores.items[i], "scoreEntries").items[k])

\* the validation of a record whose only defects are mismatches adds the
\* warning for each mismatch and no error
MismatchAddsWarningNoError ==
    (Validated /\ OnlyMismatches(input.data)) =>
      /\ AddedErrors = <<>>
      /\ \A i \in 1..Len(ValidatedAreas) :
           \A k \in 1..Len(ValidatedEntries(i)) :
             CategoryDiffers(ValidatedEntries(i)[k])
               => HasTextAt(AddedWarnings, MismatchText, <<i - 1, k - 1>>)

\* C13: the validation of a record whose only defects are mismatches between a
\* declared scoreSuccess and the category of an in-range scorePercent adds a
\* warning for each and no error, and reports the record valid.
C13_MismatchIsWarningAndRecordValid ==
    /\ MismatchAddsWarningNoError
    /\ (Validated /\ OnlyMismatches(input.data)) => output.valid

RangeText == "scorePercent must be a number between 0-100"
SuccessText == "scoreSuccess must be one of"

\* a number within [0, 100]
InPercentRange(x) == IsNumber(x) /\ LessEq(Num(0), x) /\ LessEq(x, Num(100))

IsDeclaredCategory(x) == x.type = "string" /\ x.val \in DeclaredCategories

\* C14: for every entry of a validated record, the range error is added
\* exactly when the scorePercent is present (neither null nor absent) and is
\* not a number within [0,100], the category error exactly when scoreSuccess
\* is not one of the six categories, and either makes the record not valid.
C14_EntryRangeAndCategoryErrors ==
    Validated =>
      \A i \in 1..Len(ValidatedAreas) :
        \A k \in 1..Len(ValidatedEntries(i)) :
          LET entry == ValidatedEntries(i)[k]
              percent == Get(entry, "scorePercent")
              path == <<i - 1, k - 1>>
          IN  /\ HasTextAt(AddedErrors, RangeText, path)
                   <=> (IsPresent(percent) /\ ~InPercentRange(percent))
              /\ HasTextAt(AddedErrors, SuccessText, path)
                   <=> ~IsDeclaredCategory(Get(entry, "scoreSuccess"))
              /\ (HasTextAt(AddedErrors, RangeText, path)
                  \/ HasTextAt(AddedErrors, SuccessText, path)) => ~output.valid

\* the validation of an entry with the percent 105 and of an entry with the
\* category 'great' have added their errors
C14_Witness ==
    /\ Validated
    /\ Len(ValidatedAreas) = 1
    /\ Len(ValidatedEntries(1)) = 1
    /\ \/ /\ Get(ValidatedEntries(1)[1], "scorePercent") = Num(105)
          /\ HasTextAt(AddedErrors, RangeText, <<0, 0>>)
       \/ /\ Get(ValidatedEntries(1)[1], "scoreSuccess") = Str("great")
          /\ HasTextAt(AddedErrors, SuccessText, <<0, 0>>)
    /\ ~output.valid

EmptyText == "scoreEntries cannot be empty"

Contains(messages, message) ==
    \E m \in 1..Len(messages) : messages[m] = message

\* C15: for every validated record with an area whose scoreEntries is empty,
\* the error indexed to that area is added and the record is not valid, and
\* the lists hold what the validation of each other area adds.
C15_EmptyAreaIsAnError ==
    Validated =>
      \A i \in 1..Len(ValidatedAreas) :
        ValidatedEntries(i) = <<>> =>
          /\ HasTextAt(AddedErrors, EmptyText, <<i - 1>>)
          /\ ~output.valid
          /\ \A j \in 1..Len(ValidatedAreas) \ {i} :
               LET alone == validateAreaScore(NewValidator, ValidatedAreas[j], j - 1)
               IN  /\ \A m \in 1..Len(alone.errors) :
                        Contains(AddedErrors, alone.errors[m])
                   /\ \A m \in 1..Len(alone.warnings) :
                        Contains(AddedWarnings, alone.warnings[m])

\* a record with an empty area between two others, the last with a mismatch
C15_Witness ==
    /\ Validated
    /\ Len(ValidatedAreas) = 3
    /\ ValidatedEntries(2) = <<>>
    /\ HasTextAt(AddedErrors, EmptyText, <<1>>)
    /\ HasTextAt(AddedWarnings, MismatchText, <<2, 0>>)
    /\ ~output.valid

UnusualKindText == "Unusual entity kind"

\* a record whose only deviation is an entityRef.kind that is not recognized
UnusualKindOnly(data) ==
    LET kind == Get(Get(data, "entityRef"), "kind")
    IN  /\ kind.type = "string"
        /\ kind.val # ""
        /\ kind \notin EntityKinds
        /\ data = DataOf(Obj([kind |-> kind, name |-> Str("svc")]), Arr(<<GoodArea>>))

\* what the validation adds for the kind and the name of an entityRef
KindAndNameMessages ==
    (Validated /\ Get(input.data, "entityRef").type = "object") =>
      LET entityRef == Get(input.data, "entityRef")
          kind == Get(entityRef, "kind")
      IN  /\ \A f \in {"kind", "name"} :
               ~IsPresent(Get(entityRef, f))
                 => Contains(AddedErrors, Message("Missing required field", f, <<>>))
          /\ (kind.type = "string" /\ kind.val # "" /\ kind \notin EntityKinds)
               => /\ HasText(AddedWarnings, UnusualKindText)
                  /\ ~HasText(AddedErrors, UnusualKindText)
                  /\ ~Contains(AddedErrors, Message("Missing required field", "kind", <<>>))

\* C16: an entityRef.kind outside the four kinds adds a warning and no error,
\* and a record whose only deviation is such a kind is reported valid; a
\* missing kind or name adds an error.
C16_UnusualKindIsWarningAndRecordValid ==
    /\ KindAndNameMessages
    /\ (Validated /\ UnusualKindOnly(input.data)) =>
         /\ AddedErrors = <<>>
         /\ output.valid

\* what a caller observes of a call of validateFile: whether it threw, and
\* the flag it returned
OutcomeKind(threw, valid) == [threw |-> threw, valid |-> ~threw /\ valid]

\* a readable record that fails a content check
FailsContentChecks(data) ==
    /\ data \in DefectiveData
    /\ data.type = "object"

\* C23: the outcome a caller observes for an unreadable input, a missing file
\* or text that does not parse, differs in kind from the outcome for every
\* readable record that fails content checks.
C23_UnreadableInputIsDistinct ==
    (output.op = "validateFile" /\ input \in {NoFile, Unparsable}) =>
      \A data \in DefectiveData :
        FailsContentChecks(data) =>
          LET run == ValidatedAlone(FileOf(data))
          IN  OutcomeKind(run.after.threw, run.valid)
                # OutcomeKind(output.threw, ~output.threw /\ output.valid)

(***************************************************************************)
(* SpecCli: the command line of validate-scores.js, lines 247-268: one     *)
(* ScoreValidator for the files named by the arguments (entityFiles).      *)
(* output holds allValid and, once the process has exited, its exit code.  *)
(***************************************************************************)
CliFileChoices ==
    { NoFile,
      Unparsable,
      FileOf(GoodData),
      FileOf(DataOfEntry(Entry("partial", Num(85), FALSE))),
      FileOf(DataOfEntry(Entry("success", Num(105), FALSE))),
      FileOf(Obj([entityRef |-> GoodEntityRef, generatedDateTimeUtc |-> GoodDate])) }

\* const validator = new ScoreValidator(); let allValid = true, with at least
\* one argument (no argument prints the usage)
InitCli ==
    /\ entityFiles \in SeqsOf(CliFileChoices, 1, MaxFiles)
    /\ idx = 0
    /\ calls = 0
    /\ errors = NewValidator.errors
    /\ warnings = NewValidator.warnings
    /\ output = [op |-> "validateCli", allValid |-> TRUE]
    /\ pc = "forEach"
    /\ input = NoFile
    /\ allScores = <<>>
    /\ batchErrors = <<>>
    /\ outputFile = NotWritten

\* one call of the callback of args.forEach, lines 260-264; an exception that
\* validateFile throws is not caught and ends the process with exit code 1
CliValidateFile ==
    /\ pc = "forEach"
    /\ idx < Len(entityFiles)
    /\ LET run == validateFile([errors |-> errors, warnings |-> warnings,
                                threw |-> FALSE], entityFiles[idx + 1])
       IN  /\ errors' = run.after.errors
           /\ warnings' = run.after.warnings
           /\ IF run.after.threw
              THEN /\ pc' = "exited"
                   /\ output' = [op |-> "validateCli", allValid |-> output.allValid,
                                 uncaught |-> TRUE, exitCode |-> 1]
              ELSE /\ pc' = pc
                   /\ output' = [output EXCEPT !.allValid = @ /\ run.valid]
    /\ idx' = idx + 1
    /\ calls' = calls + 1
    /\ UNCHANGED <<input, entityFiles, allScores, batchErrors, outputFile>>

\* validator.printResults(); process.exit(allValid ? 0 : 1)
CliExit ==
    /\ pc = "forEach"
    /\ idx = Len(entityFiles)
    /\ pc' = "exited"
    /\ output' = [op |-> "validateCli", allValid |-> output.allValid,
                  uncaught |-> FALSE,
                  exitCode |-> IF output.allValid THEN 0 ELSE 1]
    /\ UNCHANGED <<input, errors, warnings, calls,
                   entityFiles, idx, allScores, batchErrors, outputFile>>

NextCli == CliValidateFile \/ CliExit

SpecCli == InitCli /\ [][NextCli]_vars

\* the file has an error of its own, of content or of input: validating it
\* alone throws or puts an error in the list
HasAnError(file) ==
    LET run == ValidatedAlone(file)
    IN  run.after.threw \/ run.after.errors # <<>>

\* C22: the run exits non-zero only if at least one file had an error,
\* warnings alone leave the exit code 0, and the run has processed every file
\* when it exits: it does not stop at the first failing one.
C22_ExitStatusAfterAllRecords ==
    pc = "exited" =>
      /\ output.exitCode # 0 =>
           \E f \in 1..Len(entityFiles) : HasAnError(entityFiles[f])
      /\ calls = Len(entityFiles)

(***************************************************************************)
(* SpecFields: one parsed record, with or without its optional fields,     *)
(* given to processEntityFile and to validateEntityScore of a new          *)
(* ScoreValidator.                                                         *)
(***************************************************************************)
Absent == {[f \in {} |-> Undefined]}

NamespaceChoices == Absent \cup {[namespace |-> Str(ns)] : ns \in {"default", "prod", ""}}

ReviewerChoices == Absent \cup {[scoringReviewer |-> Str(r)] : r \in {"alice", ""}}

ReviewDateChoices ==
    Absent \cup {[scoringReviewDate |-> Str(d)] : d \in {"2024-02-01T09:00:00Z", ""}}

AreaScoresChoices ==
    { <<>>,
      <<GoodArea>>,
      <<Area(1, <<Entry("almost-success", Num(79), FALSE), GoodEntry>>),
        Area(2, <<Entry("partial", Num(85), FALSE)>>)>> }

InitFields ==
    /\ \E ns \in NamespaceChoices, reviewer \in ReviewerChoices,
          date \in ReviewDateChoices, areas \in AreaScoresChoices :
         input = Obj(Merge(Merge([entityRef |-> Obj(Merge(GoodEntityRef.fields, ns)),
                                  generatedDateTimeUtc |-> GoodDate,
                                  areaScores |-> Arr(areas)],
                                 reviewer), date))
    /\ output = NoOutput
    /\ Idle

\* new ScoreValidator().validateEntityScore(data)
ValidateEntityScore ==
    /\ output = NoOutput
    /\ LET after == validateEntityScore(NewValidator, input)
       IN  /\ errors' = after.errors
           /\ warnings' = after.warnings
           /\ output' = [op |-> "validateEntityScore", threw |-> after.threw,
                         valid |-> IsValid(after)]
    /\ UNCHANGED <<input, calls,
                   entityFiles, idx, allScores, batchErrors, outputFile, pc>>

NextFields == ProcessEntityFile \/ ValidateEntityScore

SpecFields == InitFields /\ [][NextFields]_vars

\* C17: processEntityFile and validateEntityScore leave the record they are
\* given as it was, field by field, and the NormalizedRecord is a value of its
\* own.
C17_InputIsNotMutated ==
    [][/\ output'.op \in {"processEntityFile", "validateEntityScore"} => input' = input
       /\ (output'.op = "processEntityFile" /\ ~output'.result.threw)
            => output'.result.value # input']_vars

\* a record with areas and entries has been normalized, or validated with a
\* warning
C17_Witness ==
    /\ Len(InputAreas) = 2
    /\ \/ output.op = "processEntityFile" /\ ~output.result.threw
       \/ output.op = "validateEntityScore" /\ ~output.threw /\ warnings # <<>>

\* the field is in the output exactly when it is in the source, with its value
CopiedIfPresent(source, result, field) ==
    /\ HasField(result, field) <=> IsPresent(Get(source, field))
    /\ HasField(result, field) => Get(result, field) = Get(source, field)

\* C18: in the NormalizedRecord, entityRef.namespace is there exactly when the
\* source has a namespace other than "default", and scoringReviewer and
\* scoringReviewDate are there exactly when the source has them, each with
\* the value of the source.
C18_OptionalFieldsFollowSource ==
    (output.op = "processEntityFile" /\ ~output.result.threw) =>
      LET sourceRef == Get(input, "entityRef")
          resultRef == Get(output.result.value, "entityRef")
      IN  /\ HasField(resultRef, "namespace")
               <=> (IsPresent(Get(sourceRef, "namespace"))
                    /\ Get(sourceRef, "namespace") # Str("default"))
          /\ HasField(resultRef, "namespace")
               => Get(resultRef, "namespace") = Get(sourceRef, "namespace")
          /\ CopiedIfPresent(input, output.result.value, "scoringReviewer")
          /\ CopiedIfPresent(input, output.result.value, "scoringReviewDate")

(***************************************************************************)
(* ScoreCalculator.calculateAllScores                                      *)
(***************************************************************************)
\* the key a name has as the argument of localeCompare: String(name)
NameKey(score) ==
    LET name == Get(Get(score, "entityRef"), "name")
    IN  IF name.type = "string" THEN name.val ELSE "undefined"

\* the locale order of the names that occur
NameOrder == <<"api", "svc", "undefined", "web">>

NameRank(key) == CHOOSE i \in 1..Len(NameOrder) : NameOrder[i] = key

\* a.entityRef.name.localeCompare(...) throws a TypeError for this a
NameNotComparable(score) ==
    Get(Get(score, "entityRef"), "name").type # "string"

\* the stable sort by name
RECURSIVE InsertByName(_, _)
InsertByName(sorted, score) ==
    IF sorted = <<>> THEN <<score>>
    ELSE IF NameRank(NameKey(sorted[Len(sorted)])) <= NameRank(NameKey(score))
    THEN Append(sorted, score)
    ELSE Append(InsertByName(SubSeq(sorted, 1, Len(sorted) - 1), score),
                sorted[Len(sorted)])

\* the scores left in the order in which the files were read
SortByName_KeepsReadOrder(scores) == scores

RECURSIVE SortByName(_)
SortByName(scores) ==
    IF scores = <<>> THEN <<>>
    ELSE InsertByName(SortByName(SubSeq(scores, 1, Len(scores) - 1)),
                      scores[Len(scores)])

\* allScores.sort((a, b) => a.entityRef.name.localeCompare(b.entityRef.name)):
\* the outcomes.  The comparator is not called on fewer than two elements.
\* Which elements it receives as a is up to the engine: an element whose name
\* has no localeCompare throws when it is a; a single such element may be
\* passed as b only, and then compares as the string "undefined".
SortOutcomes(scores) ==
    LET bad == {i \in 1..Len(scores) : NameNotComparable(scores[i])}
    IN  IF Len(scores) < 2 \/ bad = {} THEN {Returned(SortByName(scores))}
        ELSE IF Cardinality(bad) = 1
        THEN {Threw("TypeError"), Returned(SortByName(scores))}
        ELSE {Threw("TypeError")}

(***************************************************************************)
(* SpecBatch: calculateAllScores over the files of the directory.          *)
(***************************************************************************)
NamedRecord(kindAndName) ==
    Obj([entityRef |-> Obj(kindAndName),
         generatedDateTimeUtc |-> GoodDate,
         areaScores |-> Arr(<<GoodArea>>)])

BatchFileChoices ==
    { Unparsable,
      FileOf(Obj([generatedDateTimeUtc |-> GoodDate, areaScores |-> Arr(<<GoodArea>>)])),
      FileOf(Obj([entityRef |-> GoodEntityRef, generatedDateTimeUtc |-> GoodDate])),
      FileOf(NamedRecord([kind |-> Str("component")])),
      FileOf(DataOf(GoodEntityRef,
                    Arr(<<Obj([id |-> Num(1), title |-> Str("area")])>>))),
      FileOf(NamedRecord([kind |-> Str("component"), name |-> Str("svc")])),
      FileOf(NamedRecord([kind |-> Str("api"), name |-> Str("api")])),
      FileOf(NamedRecord([kind |-> Str("component"), name |-> Str("web")])) }

\* getEntityScoreFiles() has returned the .json files of the directory
InitBatch ==
    /\ entityFiles \in SeqsOf(BatchFileChoices, 0, MaxFiles)
    /\ idx = 0
    /\ allScores = <<>>
    /\ batchErrors = <<>>
    /\ outputFile = NotWritten
    /\ pc = "loop"
    /\ input = NoFile
    /\ output = NoOutput
    /\ errors = <<>>
    /\ warnings = <<>>
    /\ calls = 0

\* one pass of the loop of lines 45-58; a file is named by its index
ProcessNextFile ==
    /\ pc = "loop"
    /\ idx < Len(entityFiles)
    /\ LET file == idx + 1
           entityScore == processEntityFile(entityFiles[file])
       IN  IF entityScore.threw
           THEN /\ batchErrors' = Append(batchErrors,
                                         [file |-> file, message |-> entityScore.error])
                /\ allScores' = allScores
           ELSE /\ allScores' = Append(allScores, entityScore.value)
                /\ batchErrors' = batchErrors
    /\ idx' = idx + 1
    /\ UNCHANGED <<input, output, errors, warnings, calls,
                   entityFiles, outputFile, pc>>

\* lines 60-78: sort, write the output file, return the result
SortAndWrite ==
    /\ pc = "loop"
    /\ idx = Len(entityFiles)
    /\ \E sorted \in SortOutcomes(allScores) :
         IF sorted.threw
         THEN /\ pc' = "rejected"
              /\ output' = [op |-> "calculateAllScores", threw |-> TRUE]
              /\ UNCHANGED <<allScores, outputFile>>
         ELSE /\ pc' = "done"
              /\ allScores' = sorted.value
              /\ outputFile' = [written |-> TRUE, scores |-> sorted.value]
              /\ output' = [op |-> "calculateAllScores", threw |-> FALSE,
                            scores |-> sorted.value,
                            errors |-> batchErrors,
                            totalEntities |-> Len(sorted.value)]
    /\ UNCHANGED <<input, errors, warnings, calls, entityFiles, idx, batchErrors>>

NextBatch == ProcessNextFile \/ SortAndWrite

SpecBatch == InitBatch /\ [][NextBatch]_vars

\* the claim's records that cannot be processed: unparsable, without entityRef
\* or areaScores, an entityRef without a name, an area without scoreEntries
CannotBeProcessed(file) ==
    \/ ~file.parses
    \/ ~HasField(file.data, "entityRef")
    \/ ~HasField(file.data, "areaScores")
    \/ ~HasField(Get(file.data, "entityRef"), "name")
    \/ \E i \in 1..Len(Get(file.data, "areaScores").items) :
         ~HasField(Get(file.data, "areaScores").items[i], "scoreEntries")

\* the number of elements of the sequence that are equal to x
CountOf(seq, x) == Cardinality({i \in 1..Len(seq) : seq[i] = x})

\* C9: calculateAllScores completes and writes the output for every collection
\* of files; each file that cannot be processed has one entry naming it in the
\* returned errors, and the output holds the normalized record of every other
\* file.
C9_BatchIsBestEffort ==
    /\ pc # "rejected"
    /\ pc = "done" =>
         /\ outputFile.written
         /\ \A f \in 1..Len(entityFiles) :
              IF CannotBeProcessed(entityFiles[f])
              THEN Cardinality({e \in 1..Len(output.errors) :
                                   output.errors[e].file = f}) = 1
              ELSE /\ \A e \in 1..Len(output.errors) : output.errors[e].file # f
                   /\ CountOf(outputFile.scores,
                              processEntityFile(entityFiles[f]).value)
                        = Cardinality({g \in 1..Len(entityFiles) :
                                          entityFiles[g] = entityFiles[f]})
         /\ Len(outputFile.scores)
              = Cardinality({f \in 1..Len(entityFiles) :
                                ~CannotBeProcessed(entityFiles[f])})

(***************************************************************************)
(* process-pr-merge.js: PRMergeProcessor.processPRMerge.                   *)
(* calculateAllScores as one call: its outcomes for the files of the       *)
(* directory.                                                              *)
(***************************************************************************)
\* allScores after the loop of lines 45-58
RECURSIVE LoopScores(_)
LoopScores(files) ==
    IF files = <<>> THEN <<>>
    ELSE LET before == LoopScores(SubSeq(files, 1, Len(files) - 1))
             entityScore == processEntityFile(files[Len(files)])
         IN  IF entityScore.threw THEN before
             ELSE Append(before, entityScore.value)

\* errors after the loop of lines 45-58
RECURSIVE LoopErrors(_)
LoopErrors(files) ==
    IF files = <<>> THEN <<>>
    ELSE LET before == LoopErrors(SubSeq(files, 1, Len(files) - 1))
             entityScore == processEntityFile(files[Len(files)])
         IN  IF entityScore.threw
             THEN Append(before, [file |-> Len(files), message |-> entityScore.error])
             ELSE before

\* calculateAllScores(): it rejects when the sort throws, else it writes the
\* sorted scores and returns them with the errors
calculateAllScores(files) ==
    { IF sorted.threw THEN Threw(sorted.error)
      ELSE Returned([scores |-> sorted.value,
                     errors |-> LoopErrors(files),
                     totalEntities |-> Len(sorted.value)]) :
      sorted \in SortOutcomes(LoopScores(files)) }

(***************************************************************************)
(* SpecMerge: one run of processPRMerge.  entityFiles is the content of    *)
(* ./entity-scores, input.entityScoreFiles the files that                  *)
(* filterEntityScoreFiles returned (by their index in the directory), and  *)
(* output the locals of the run: hasErrors, the files that passed, what    *)
(* git did, and the value returned.                                        *)
(***************************************************************************)
MergeFileChoices ==
    { Unparsable,
      FileOf(Obj([entityRef |-> GoodEntityRef, generatedDateTimeUtc |-> GoodDate])),
      FileOf(NamedRecord([kind |-> Str("component")])),
      FileOf(DataOfEntry(Entry("success", Num(105), FALSE))),
      FileOf(NamedRecord([kind |-> Str("service"), name |-> Str("web")])),
      FileOf(NamedRecord([kind |-> Str("component"), name |-> Str("svc")])),
      FileOf(NamedRecord([kind |-> Str("api"), name |-> Str("api")])) }

\* the increasing sequences of indices of a directory of n files
Selections(n) ==
    {sel \in SeqsOf(1..n, 0, n) :
       \A i \in 1..Len(sel) : \A j \in 1..Len(sel) : i < j => sel[i] < sel[j]}

NotReturned == [returned |-> FALSE]

\* the locals of processPRMerge before validateChangedFiles
MergeStart ==
    [op |-> "processPRMerge", hasErrors |-> FALSE, passed |-> {},
     hasChanges |-> FALSE, pushed |-> FALSE, result |-> NotReturned]

\* getChangedFiles() and filterEntityScoreFiles() have returned
InitMerge ==
    /\ entityFiles \in SeqsOf(MergeFileChoices, 0, MaxFiles)
    /\ \E sel \in Selections(Len(entityFiles)) : input = [entityScoreFiles |-> sel]
    /\ idx = 0
    /\ calls = 0
    /\ output = MergeStart
    /\ allScores = <<>>
    /\ batchErrors = <<>>
    /\ outputFile = NotWritten
    /\ errors = <<>>
    /\ warnings = <<>>
    /\ pc = "validateChangedFiles"

\* lines 32-35: no entity score file to process
NoScoreFiles ==
    /\ pc = "validateChangedFiles"
    /\ Len(input.entityScoreFiles) = 0
    /\ pc' = "returned"
    /\ output' = [output EXCEPT !.result = [returned |-> TRUE, success |-> TRUE,
                                            processedFiles |-> 0]]
    /\ UNCHANGED <<input, errors, warnings, calls,
                   entityFiles, idx, allScores, batchErrors, outputFile>>

\* one pass of the loop of lines 124-138, with a new ScoreValidator; what
\* validateFile throws is caught at line 63
ValidateChangedFile ==
    /\ pc = "validateChangedFiles"
    /\ idx < Len(input.entityScoreFiles)
    /\ LET file == input.entityScoreFiles[idx + 1]
           run == validateFile(NewValidator, entityFiles[file])
       IN  IF run.after.threw
           THEN /\ pc' = "returned"
                /\ output' = [output EXCEPT !.result = [returned |-> TRUE,
                                                        success |-> FALSE,
                                                        processedFiles |-> 0]]
           ELSE /\ pc' = pc
                /\ output' = [output EXCEPT
                                !.hasErrors = @ \/ ~run.valid,
                                !.passed = IF run.valid THEN @ \cup {file} ELSE @]
    /\ idx' = idx + 1
    /\ calls' = calls + 1
    /\ UNCHANGED <<input, errors, warnings,
                   entityFiles, allScores, batchErrors, outputFile>>

\* lines 140-148 and 42-44: the value of validateChangedFiles
ValidateChangedFilesReturn ==
    /\ pc = "validateChangedFiles"
    /\ Len(input.entityScoreFiles) > 0
    /\ idx = Len(input.entityScoreFiles)
    /\ IF output.hasErrors
       THEN /\ pc' = "returned"
            /\ output' = [output EXCEPT !.result = [returned |-> TRUE,
                                                    success |-> FALSE,
                                                    processedFiles |-> 0]]
       ELSE /\ pc' = "updateScores"
            /\ output' = output
    /\ UNCHANGED <<input, errors, warnings, calls,
                   entityFiles, idx, allScores, batchErrors, outputFile>>

\* updateScores(), lines 150-178 and 47-50
UpdateScores ==
    /\ pc = "updateScores"
    /\ \E result \in calculateAllScores(entityFiles) :
         IF result.threw
         THEN /\ pc' = "returned"
              /\ output' = [output EXCEPT !.result = [returned |-> TRUE,
                                                      success |-> FALSE,
                                                      processedFiles |-> 0]]
              /\ UNCHANGED <<allScores, batchErrors, outputFile>>
         ELSE /\ pc' = "commitUpdatedScores"
              /\ allScores' = result.value.scores
              /\ batchErrors' = result.value.errors
              /\ outputFile' = [written |-> TRUE, scores |-> result.value.scores]
              /\ output' = output
    /\ UNCHANGED <<input, errors, warnings, calls, entityFiles, idx>>

\* commitUpdatedScores(), lines 180-209, and the return of lines 55-61.
\* Whether all.json differs from HEAD, whether git status fails, and whether
\* git config, add, commit and push all succeed, are up to the environment.
CommitUpdatedScores ==
    /\ pc = "commitUpdatedScores"
    /\ \E changed \in BOOLEAN, statusFails \in BOOLEAN, gitSucceeds \in BOOLEAN :
         LET hasChanges == changed /\ ~statusFails
         IN  output' = [output EXCEPT
                          !.hasChanges = changed,
                          !.pushed = hasChanges /\ gitSucceeds,
                          !.result = [returned |-> TRUE, success |-> TRUE,
                                      processedFiles |-> Len(input.entityScoreFiles)]]
    /\ pc' = "returned"
    /\ UNCHANGED <<input, errors, warnings, calls,
                   entityFiles, idx, allScores, batchErrors, outputFile>>

NextMerge ==
    \/ NoScoreFiles
    \/ ValidateChangedFile
    \/ ValidateChangedFilesReturn
    \/ UpdateScores
    \/ CommitUpdatedScores

SpecMerge == InitMerge /\ [][NextMerge]_vars

\* the files that filterEntityScoreFiles selected
SelectedFiles ==
    {input.entityScoreFiles[i] : i \in 1..Len(input.entityScoreFiles)}

\* the validation of file f of the directory does not pass: validateFile
\* returns false or throws
FailsValidation(f) ==
    LET run == validateFile(NewValidator, entityFiles[f])
    IN  run.after.threw \/ ~run.valid

\* every selected file has been validated, and passed
AllValidatedAndPassed ==
    /\ calls = Len(input.entityScoreFiles)
    /\ output.passed = SelectedFiles

\* the Aggregator runs, all.json is written and the commit is pushed only
\* after every selected file was validated and passed
GatedOnValidation ==
    (\/ pc \in {"updateScores", "commitUpdatedScores"}
     \/ outputFile.written
     \/ output.pushed) => AllValidatedAndPassed

\* C24: in processPRMerge the Aggregator run, the write of all.json and the
\* commit happen only after every selected file was validated and passed;
\* when a selected file fails, all selected files are validated all the same,
\* the result is success=false, and nothing is aggregated, written or
\* committed.
C24_AggregationGatedOnValidation ==
    /\ GatedOnValidation
    /\ (pc = "returned" /\ \E f \in SelectedFiles : FailsValidation(f)) =>
         /\ calls = Len(input.entityScoreFiles)
         /\ ~output.result.success
         /\ ~outputFile.written
         /\ ~output.pushed

\* C25: in every run of processPRMerge that writes all.json, each record of
\* the written output comes from a file that was validated in the run and
\* passed.
C25_WrittenRecordsWereValidated ==
    outputFile.written =>
      \A f \in 1..Len(entityFiles) :
        ~processEntityFile(entityFiles[f]).threw => f \in output.passed

\* C28: when processPRMerge returns success=true after processing at least
\* one file, all.json has no changes or its commit has been pushed.
C28_SuccessMeansPublished ==
    (/\ pc = "returned"
     /\ output.result.success
     /\ output.result.processedFiles >= 1) =>
      (~output.hasChanges \/ output.pushed)

\* C20: the sequence written by calculateAllScores is non-decreasing in
\* entityRef.name, whatever the records are and in whatever order their files
\* were read.
C20_OutputSortedByName ==
    outputFile.written =>
      \A i \in 1..Len(outputFile.scores) :
        \A j \in 1..Len(outputFile.scores) :
          (/\ i < j
           /\ ~NameNotComparable(outputFile.scores[i])
           /\ ~NameNotComparable(outputFile.scores[j]))
            => NameRank(NameKey(outputFile.scores[i]))
                 <= NameRank(NameKey(outputFile.scores[j]))

\* two files read in the order opposite to the one of their names
C20_Witness ==
    /\ pc = "done"
    /\ outputFile.written
    /\ Len(entityFiles) = 2
    /\ Len(outputFile.scores) = 2
    /\ outputFile.scores[1] # outputFile.scores[2]
    /\ outputFile.scores[1] = processEntityFile(entityFiles[2]).value
    /\ outputFile.scores[2] = processEntityFile(entityFiles[1]).value

====
